---- MODULE Spec2Model ----
(***************************************************************************)
(* Verification model of the claw-machine reward reel (ninjabot12/Spinner). *)
(*                                                                         *)
(*   Spec      the play state machine reducer (useClawState.ts) driven by  *)
(*             arbitrary dispatches                                        *)
(*   GeomSpec  the carousel geometry and target selection functions        *)
(*             (utils.carousel.ts) applied to bounded inputs               *)
(*   PickSpec  the two weighted picks (mockApi.ts selectPrizeByWeight,     *)
(*             ClawMachineV2.tsx selectWinningCard) applied to bounded     *)
(*             inputs                                                      *)
(*   FlowSpec  the single-carousel container (ClawMachine.tsx): handlePlay,*)
(*             allocator responses, the GSAP timeline, Skip, claim, close  *)
(*                                                                         *)
(* Pixel offsets are kept in HALF pixels (x2 = 2 * x) so that VIEW_W / 2   *)
(* and ITEM_W / 2 stay exact; lap counts are kept in half laps.            *)
(***************************************************************************)
EXTENDS Integers, Sequences, FiniteSets, TLC

VARIABLES
    prizes,      \* prizes.fixture.json: the catalog, a sequence of [id, weight]
    m,           \* ClawMachineInternalState held by useReducer
    last,        \* history: the last dispatched action and the state it met
    gPhase,      \* GeomSpec: which function was applied last
    gGeometry,   \* GeomSpec: the Geometry {VIEW_W, ITEM_W} under test
    gIndex,      \* GeomSpec: the index given to translateForIndex
    gX,          \* GeomSpec: the translation it returned (half pixels)
    gCentered,   \* GeomSpec: getIndexFromX of that translation
    pickCall,    \* GeomSpec: the last pickTargetIndex call and its outcome
    wCall,       \* PickSpec: the last weighted pick and its outcome
    env,         \* FlowSpec: reducedMotion, showDevControls, geometry
    calls,       \* FlowSpec: allocator calls (mockApi.play) not yet settled
    nextId,      \* FlowSpec: number of allocator calls issued so far
    live,        \* FlowSpec: history, the call issued by the live session's PLAY
    timeline,    \* FlowSpec: timelineRef.current
    carouselX,   \* FlowSpec: the carousel strip's translation (half pixels)
    modal,       \* FlowSpec: ResultModal's claimed / loading / error state
    claimCalls,  \* FlowSpec: claim calls (mockApi.claim) not yet settled
    sliderGeom,  \* MultiRowSlider: measured cardSize and container width (pixels)
    rowStates,   \* MultiRowSlider: rowStates.current, one record per row
    decel,       \* MultiRowSlider: the pending stopSpinWithDeceleration, or null
    decel2,      \* MultiRowSlider: a stopSpinWithDeceleration called while that one
                 \*                 is pending, or null
    sliderOp,    \* history: the snap (with the rows it met) or the resolution just made
    visible,     \* GridSpec: what the last getVisibleCards call returned, or null
    go,          \* GoSpec: ClawMachineV2's isSpinning, isStopping, showModal, error,
                 \*         playResult and apiResultRef.current
    stopSeq,     \* GoSpec: the running stop sequence of handleGO, or null
    sliderUi,    \* GoSpec: MultiRowSlider's highlightedCard and hiddenCard
    gallery      \* GallerySpec: CircularGallery's scroll, flags and pending spin

machineVars == <<m, last>>
geomVars == <<gPhase, gGeometry, gIndex, gX, gCentered, pickCall>>
pickVars == <<wCall>>
flowVars == <<env, calls, nextId, live, timeline, carouselX, modal, claimCalls>>
sliderVars == <<sliderGeom, rowStates, decel, decel2, sliderOp, visible>>
goVars == <<go, stopSeq, sliderUi>>
galleryVars == <<gallery>>
vars == <<prizes, machineVars, geomVars, pickVars, flowVars, sliderVars, goVars, galleryVars>>

----------------------------------------------------------------------------
(* Bounds of the model *)

MaxPrizes == 3        \* longest catalog
MaxWeight == 2        \* largest prize weight
MaxPlays == 2         \* allocator calls issued in one run
MaxPayloadId == 1     \* playIds of the payloads dispatched to the bare reducer
MaxPayloadPrizes == 2 \* prizes of the payloads dispatched to the bare reducer
MaxX == 1             \* SET_CURRENT_X payloads range over 0..MaxX
MaxIndex == 6         \* logical indices range over -MaxIndex..MaxIndex
MaxView == 5          \* VIEW_W ranges over 1..MaxView
MaxItem == 3          \* ITEM_W ranges over 1..MaxItem
MaxLaps2 == 4         \* minLaps ranges over 0, 0.5, .. MaxLaps2 / 2
MaxCards == 2         \* visible cards handed to selectWinningCard
RandRes == 2          \* Math.random() * totalWeight is drawn in steps of 1/RandRes
RowCount == 2         \* rows of the slider (rowCount)
MaxCardSize == 4      \* cardSize ranges over 0..MaxCardSize in the motion model
MaxItems == 2         \* longest catalog of the motion model
MaxGridItems == 5     \* longest catalog of the grid model
GridCardSize == 8     \* cardSize of the grid model (cardWidth 24)
GridWidth == 120      \* container width of the grid model (leftMargin 8)
GoWidth == 80         \* container width of the multi-row flow (leftMargin 8)
GoItems == 1          \* catalogue length of the multi-row flow
GoWideWidth == 200    \* a container so wide that its window lies beyond the cards
GalleryItemWidth == 4 \* medias[0].width of the gallery, in auto-scroll steps
MaxGalleryLaps == 1   \* laps of spinToIndex range over 0..MaxGalleryLaps
MaxSpins == 2         \* spinToIndex calls in one run
MaxScroll == 16       \* the idle drift is followed up to this scroll target

(* Program constants *)

MIN_LAPS2 == 3        \* 2 * MIN_LAPS, MIN_LAPS = 1.5
gapSize == 16         \* gap between cards (pixels)
IDLE_VELOCITY == 1    \* the idle drift, pixels per frame
MIN_SPIN_VELOCITY == 13 \* (15 + Math.random() * 10) * 0.85 lies in [12.75, 21.25):
MAX_SPIN_VELOCITY == 21 \* its least and greatest whole-pixel values
targetVisibleCards == 5 \* columns of the visible grid
autoScrollSpeed == 1  \* the idle drift per frame (0.15), the unit of scroll
SCROLL_EASE_NUM == 2  \* scroll.ease = 0.08 = 2 / 25
SCROLL_EASE_DEN == 25

----------------------------------------------------------------------------
(* Values *)

IdPool == <<"p1", "p2", "p3", "p4", "p5", "p6">>
AbsentId == "none"
NullStr == "null"     \* null in a string-valued field
Null == <<>>          \* null in an object-valued field
Some(v) == <<v>>
Val(o) == o[1]

Idle == "idle"
Spinning == "spinning"
Decelerating == "decelerating"
Grabbing == "grabbing"
Lifting == "lifting"
Reveal == "reveal"
Settle == "settle"
MachineState == {Idle, Spinning, Decelerating, Grabbing, Lifting, Reveal, Settle}

\* catalogs of n prizes with unique ids, in a fixed order, every weight assignment
CatalogsOfLen(n, W) ==
    { [i \in 1..n |-> [id |-> IdPool[i], weight |-> w[i]]] : w \in [1..n -> W] }

Catalogs(lo, hi, W) == UNION { CatalogsOfLen(n, W) : n \in lo..hi }

Range(s) == { s[i] : i \in 1..Len(s) }

PlayResults == { [playId |-> p, prize |-> z] : p \in 1..MaxPayloadId, z \in Range(prizes) }

ClaimResults ==
    { [playId |-> p, prizeId |-> z.id, success |-> s] :
        p \in 1..MaxPayloadId, z \in Range(prizes), s \in BOOLEAN }

ErrorMessages == {"Failed to fetch prize", "TypeError"}

----------------------------------------------------------------------------
(* useClawState.ts: the reducer *)

initialState ==
    [ state |-> Idle,
      playResult |-> Null,
      claimResult |-> Null,
      currentX |-> 0,
      highlightId |-> NullStr,
      error |-> NullStr ]

\* case 'PLAY' (lines 33-42)
onPlay(state) ==
    IF state.state # Idle THEN state
    ELSE [state EXCEPT !.state = Spinning,
                       !.playResult = Null,
                       !.claimResult = Null,
                       !.error = NullStr]

\* case 'ATTACH_RESULT' (lines 44-51)
onAttachResult(state, payload) ==
    IF state.state # Spinning THEN state
    ELSE [state EXCEPT !.playResult = Some(payload),
                       !.highlightId = payload.prize.id]

\* case 'DECELERATE' (lines 53-59)
onDecelerate(state) ==
    IF state.state # Spinning /\ state.state # Decelerating THEN state
    ELSE [state EXCEPT !.state = Decelerating]

\* a GRAB that forgets its guard
onGrabUnguarded(state) == [state EXCEPT !.state = Grabbing]

\* case 'GRAB' (lines 61-66)
onGrab(state) ==
    IF state.state # Decelerating THEN state
    ELSE [state EXCEPT !.state = Grabbing]

\* case 'REVEAL' (lines 68-79)
onReveal(state) ==
    IF state.state # Grabbing /\ state.state # Lifting THEN state
    ELSE [state EXCEPT !.state = Reveal]

\* a CLAIM that moves to Settle and drops the payload
onClaimDropsPayload(state, payload) ==
    IF state.state # Reveal THEN state
    ELSE [state EXCEPT !.state = Settle]

\* case 'CLAIM' (lines 81-87)
onClaim(state, payload) ==
    IF state.state # Reveal THEN state
    ELSE [state EXCEPT !.claimResult = Some(payload),
                       !.state = Settle]

\* a RESET that only returns to Idle
onResetKeepsFields(state) == [state EXCEPT !.state = Idle]

\* case 'RESET' (lines 89-90)
onReset(state) == initialState

\* case 'SET_CURRENT_X' (lines 92-96)
onSetCurrentX(state, payload) == [state EXCEPT !.currentX = payload]

\* case 'ERROR' (lines 98-103)
onError(state, payload) == [state EXCEPT !.error = payload, !.state = Idle]

clawMachineReducer(state, action) ==
    CASE action.type = "PLAY" -> onPlay(state)
      [] action.type = "ATTACH_RESULT" -> onAttachResult(state, action.payload)
      [] action.type = "DECELERATE" -> onDecelerate(state)
      [] action.type = "GRAB" -> onGrab(state)
      [] action.type = "REVEAL" -> onReveal(state)
      [] action.type = "CLAIM" -> onClaim(state, action.payload)
      [] action.type = "RESET" -> onReset(state)
      [] action.type = "SET_CURRENT_X" -> onSetCurrentX(state, action.payload)
      [] action.type = "ERROR" -> onError(state, action.payload)
      [] OTHER -> state

\* the reducer folded over the dispatches one handler makes in a row
RECURSIVE reduceAll(_, _)
reduceAll(state, actions) ==
    IF actions = <<>> THEN state
    ELSE reduceAll(clawMachineReducer(state, Head(actions)), Tail(actions))

canPlay(state) == state.state = Idle
isBusy(state) == state.state # Idle /\ state.state # Settle
isRevealOpen(state) == state.state = Reveal \/ state.state = Settle

----------------------------------------------------------------------------
(* utils.carousel.ts: geometry, in half pixels *)

\* 2 * centerLineX(VIEW_W)
centerLineX(VIEW_W) == VIEW_W

\* 2 * indexToCenterOffset(index, ITEM_W)
indexToCenterOffset(index, ITEM_W) == 2 * index * ITEM_W + ITEM_W

\* 2 * translateForIndex(index, VIEW_W, ITEM_W): centerOffset - centerLine
translateForIndex(index, VIEW_W, ITEM_W) ==
    LET centerOffset == indexToCenterOffset(index, ITEM_W)
        centerLine == centerLineX(VIEW_W)
    IN  centerOffset - centerLine

\* getIndexFromX(x, VIEW_W, ITEM_W) of a translation x given in half pixels:
\* Math.floor((centerLine - x) / ITEM_W)
getIndexFromX(x, VIEW_W, ITEM_W) ==
    LET centerLine == centerLineX(VIEW_W)
        tileCenter == centerLine - x
    IN  tileCenter \div (2 * ITEM_W)

----------------------------------------------------------------------------
(* utils.carousel.ts: pickTargetIndex *)

\* JavaScript's a % n: the remainder takes the sign of the dividend
JsRem(a, n) == IF a >= 0 THEN a % n ELSE -((-a) % n)

\* Math.ceil(a / n) for n > 0
CeilDiv(a, n) == -((-a) \div n)

Returned(k) == [kind |-> "return", index |-> k]
TypeError == [kind |-> "TypeError", index |-> 0]

\* baseItems.findIndex((p) => p.id === targetId), 0-based, -1 when absent
findIndex(baseItems, targetId) ==
    IF \E k \in 1..Len(baseItems) : baseItems[k].id = targetId
    THEN (CHOOSE k \in 1..Len(baseItems) :
            /\ baseItems[k].id = targetId
            /\ \A j \in 1..(k - 1) : baseItems[j].id # targetId) - 1
    ELSE -1

\* a fallback that forgets the last resort and hands back findIndex's -1
pickFallbackNoLastResort(baseItems, targetId, minIndex) ==
    LET baseLen == Len(baseItems)
        targetBaseIndex == findIndex(baseItems, targetId)
    IN  IF targetBaseIndex >= 0
        THEN LET cyclesNeeded == CeilDiv(minIndex - targetBaseIndex, baseLen)
             IN  Returned(targetBaseIndex + cyclesNeeded * baseLen)
        ELSE Returned(targetBaseIndex)

\* lines 118-127: the closed form, then the last resort
pickFallback(baseItems, targetId, minIndex) ==
    LET baseLen == Len(baseItems)
        targetBaseIndex == findIndex(baseItems, targetId)
    IN  IF targetBaseIndex >= 0
        THEN LET cyclesNeeded == CeilDiv(minIndex - targetBaseIndex, baseLen)
             IN  Returned(targetBaseIndex + cyclesNeeded * baseLen)
        ELSE Returned(minIndex)

\* lines 109-116: the scan, i probes done, candidateIndex next.  A negative
\* candidateIndex % baseLen indexes outside the array: baseItems[baseIndex] is
\* undefined and reading .id of it throws a TypeError.
RECURSIVE pickScan(_, _, _, _, _)
pickScan(baseItems, targetId, minIndex, candidateIndex, i) ==
    LET baseLen == Len(baseItems) IN
    IF i >= baseLen * 3 THEN pickFallback(baseItems, targetId, minIndex)
    ELSE LET baseIndex == JsRem(candidateIndex, baseLen) IN
         IF baseIndex < 0 THEN TypeError
         ELSE IF baseItems[baseIndex + 1].id = targetId THEN Returned(candidateIndex)
         ELSE pickScan(baseItems, targetId, minIndex, candidateIndex + 1, i + 1)

\* pickTargetIndex({baseItems, targetId, fromIndex, minLaps}), minLaps = minLaps2 / 2
pickTargetIndex(baseItems, targetId, fromIndex, minLaps2) ==
    LET baseLen == Len(baseItems)
        minDistance == CeilDiv(minLaps2 * baseLen, 2)
        minIndex == fromIndex + minDistance
    IN  pickScan(baseItems, targetId, minIndex, minIndex, 0)

----------------------------------------------------------------------------
(* mockApi.ts selectPrizeByWeight, ClawMachineV2.tsx selectWinningCard *)

RECURSIVE SumWeights(_)
SumWeights(ws) == IF ws = <<>> THEN 0 ELSE Head(ws) + SumWeights(Tail(ws))

\* Math.random() * totalWeight lies in [0, totalWeight); drawn on a grid of
\* 1/RandRes and carried multiplied by RandRes
Draws(totalWeight) ==
    IF totalWeight <= 0 THEN {0} ELSE 0..(totalWeight * RandRes - 1)

\* the loop "random -= weight; if (random <= 0) return candidate" from position k;
\* 0 when the loop ends without returning
RECURSIVE weightedLoop(_, _, _)
weightedLoop(ws, random, k) ==
    IF k > Len(ws) THEN 0
    ELSE LET rest == random - ws[k] * RandRes
         IN  IF rest <= 0 THEN k ELSE weightedLoop(ws, rest, k + 1)

\* position (1-based) of the candidate the pick returns; the fallback is the
\* first candidate, which is undefined (0) for an empty list
weightedPick(ws, random) ==
    LET k == weightedLoop(ws, random, 1)
    IN  IF k # 0 THEN k ELSE IF Len(ws) > 0 THEN 1 ELSE 0

\* what the caller gets back: a candidate of the list, or undefined (the first
\* element of an empty list); neither pick throws or signals anything else
pickOutcome(k) == IF k = 0 THEN "undefined" ELSE "candidate"

\* prize.weight || 0
prizeWeights(items) == [k \in 1..Len(items) |-> items[k].weight]

selectPrizeByWeight(items, random) == weightedPick(prizeWeights(items), random)

\* prizes.find((p) => p.id === card.prizeId)?.weight || 1: a weight of 0, like
\* a prize that is not found, counts as 1
cardWeight(items, card) ==
    LET found == { k \in 1..Len(items) : items[k].id = card.prizeId }
    IN  IF found = {} THEN 1
        ELSE LET w == items[CHOOSE k \in found : \A j \in found : k <= j].weight
             IN  IF w = 0 THEN 1 ELSE w

cardWeights(items, visibleCards) ==
    [k \in 1..Len(visibleCards) |-> cardWeight(items, visibleCards[k])]

selectWinningCard(items, visibleCards, random) ==
    weightedPick(cardWeights(items, visibleCards), random)

----------------------------------------------------------------------------
(* MultiRowSlider.tsx: the rows and their motion.  Positions and velocities  *)
(* are whole pixels: the eased velocity of a deceleration is rounded up, so  *)
(* that a row that still moves keeps a positive velocity.                    *)

\* Math.abs
Abs(x) == IF x < 0 THEN -x ELSE x

\* initial direction and the one every start sets: index % 2 === 0 ? 1 : -1
rowDirection(index) == IF index % 2 = 0 THEN 1 ELSE -1

\* useRef(Array.from({length: rowCount}, ...)); rows are 1-based here, the
\* code's index is i - 1
initialRowStates ==
    [i \in 1..RowCount |->
        [position |-> 0, velocity |-> IDLE_VELOCITY,
         direction |-> rowDirection(i - 1), frozen |-> FALSE]]

\* cardWidth = cardSizeRef.current + gapSize
cardWidth(geom) == geom.cardSize + gapSize

\* totalWidth = cardWidth * items.length
totalWidth(geom, n) == cardWidth(geom) * n

\* a wrap that forgets the rows that run right to left
wrapForwardOnly(position, total) ==
    IF position >= total THEN position - total ELSE position

\* animate, lines 204-208: one subtraction or one addition of totalWidth
wrap(position, total) ==
    IF position >= total THEN position - total
    ELSE IF position < 0 THEN position + total
    ELSE position

\* animate, lines 190-212: one animation frame over all rows
animate(rows, geom, n) ==
    [i \in 1..Len(rows) |->
        IF rows[i].frozen THEN rows[i]
        ELSE [rows[i] EXCEPT !.position =
                wrap(rows[i].position + rows[i].velocity * rows[i].direction,
                     totalWidth(geom, n))]]

\* Math.round(a / b) for b > 0: halves round up
RoundDiv(a, b) == (2 * a + b) \div (2 * b)

\* a snap that rounds down to the card boundary on the left
snapPositionDown(position, geom, n) ==
    LET nearestCard == position \div cardWidth(geom)
        targetPosition == nearestCard * cardWidth(geom)
        normalizedPosition == JsRem(targetPosition, totalWidth(geom, n))
    IN  IF normalizedPosition < 0 THEN normalizedPosition + totalWidth(geom, n)
        ELSE normalizedPosition

\* snapPositionsToGrid, lines 127-137, for one row
snapPosition(position, geom, n) ==
    LET nearestCard == RoundDiv(position, cardWidth(geom))
        targetPosition == nearestCard * cardWidth(geom)
        normalizedPosition == JsRem(targetPosition, totalWidth(geom, n))
    IN  IF normalizedPosition < 0 THEN normalizedPosition + totalWidth(geom, n)
        ELSE normalizedPosition

\* snapPositionsToGrid, lines 119-147
snapPositionsToGrid(rows, geom, n) ==
    [i \in 1..Len(rows) |->
        [rows[i] EXCEPT !.position = snapPosition(rows[i].position, geom, n)]]

\* startContinuousSpin, lines 261-265, with the velocities it drew
startContinuousSpin(rows, velocities) ==
    [i \in 1..Len(rows) |->
        [rows[i] EXCEPT !.direction = rowDirection(i - 1),
                        !.velocity = velocities[i],
                        !.frozen = FALSE]]

\* a freeze that sets the flag and leaves the velocity
freezeKeepsVelocity(rows) ==
    [i \in 1..Len(rows) |-> [rows[i] EXCEPT !.frozen = TRUE]]

\* freeze, lines 321-324; also the "ensure all rows are frozen" of lines 299-302
freeze(rows) ==
    [i \in 1..Len(rows) |-> [rows[i] EXCEPT !.frozen = TRUE, !.velocity = 0]]

\* unfreeze, lines 329-332
unfreeze(rows) ==
    [i \in 1..Len(rows) |-> [rows[i] EXCEPT !.frozen = FALSE, !.velocity = IDLE_VELOCITY]]

\* progress = Math.min(elapsed / duration, 1), seen in percent at the frames
\* of a deceleration: halfway, at 82 % (where a row started at the least spin
\* velocity is below the threshold and one started at the greatest is not),
\* and at the end
DecelProgress == {50, 82, 100}

\* 1 - easeOut = (1 - progress)^3 = Cube(100 - p) / Cube(100)
Cube(x) == x * x * x

\* progress >= 0.98
nearlyDone(p) == p >= 98

\* initialVelocity * (1 - easeOut) < 0.1
belowThreshold(initial, p) == 10 * initial * Cube(100 - p) < Cube(100)

\* initialVelocity * (1 - easeOut), rounded up to whole pixels
easedVelocity(initial, p) == CeilDiv(initial * Cube(100 - p), Cube(100))

\* lines 281-292: the rows after one decelerate frame at progress k percent
decelerateRows(rows, initialVelocities, k) ==
    [i \in 1..Len(rows) |->
        IF rows[i].frozen THEN rows[i]
        ELSE IF nearlyDone(k) \/ belowThreshold(initialVelocities[i], k)
             THEN [rows[i] EXCEPT !.frozen = TRUE, !.velocity = 0]
             ELSE [rows[i] EXCEPT !.velocity = easedVelocity(initialVelocities[i], k)]]

\* rowStates.current.every(state => state.frozen)
allFrozen(rows) == \A i \in 1..Len(rows) : rows[i].frozen

\* a decelerate frame that tests the rows as the frame found them, without the
\* progress >= 1 exit
decelerateChecksBeforeFrame(rows, initialVelocities, k) ==
    LET eased == decelerateRows(rows, initialVelocities, k)
    IN  IF allFrozen(rows)
        THEN [rows |-> freeze(eased), resolved |-> TRUE]
        ELSE [rows |-> eased, resolved |-> FALSE]

\* a decelerate frame that resolves as soon as the first row has stopped
decelerateResolvesOnFirstStop(rows, initialVelocities, k) ==
    LET eased == decelerateRows(rows, initialVelocities, k)
    IN  IF (\E i \in 1..Len(eased) : eased[i].frozen) \/ k >= 100
        THEN [rows |-> eased, resolved |-> TRUE]
        ELSE [rows |-> eased, resolved |-> FALSE]

\* decelerate, lines 274-310: one frame of stopSpinWithDeceleration at progress
\* k percent; resolved says whether this frame resolved the promise
decelerate(rows, initialVelocities, k) ==
    LET eased == decelerateRows(rows, initialVelocities, k)
    IN  IF allFrozen(eased) \/ k >= 100
        THEN [rows |-> freeze(eased), resolved |-> TRUE]
        ELSE [rows |-> eased, resolved |-> FALSE]

\* getVisibleCards, lines 343-357, in half pixels: 2 * leftMargin and
\* 2 * (leftMargin + totalCardsWidth)
totalCardsWidth(geom) == targetVisibleCards * cardWidth(geom) - gapSize
visibleStartX(geom) == geom.containerWidth - totalCardsWidth(geom)
visibleEndX(geom) == visibleStartX(geom) + 2 * totalCardsWidth(geom)

\* a scan that walks one copy of the catalog
renderedOnce(n) == 0..(n - 1)

\* line 362: the rendered cards, three copies of the catalog
renderedCards(n) == 0..(3 * n - 1)

\* lines 364-365: 2 * cardCenterX of rendered card i
cardCenterX(i, position, geom) == 2 * (i * cardWidth(geom) - position) + cardWidth(geom)

\* line 368
inVisibleArea(i, position, geom) ==
    /\ cardCenterX(i, position, geom) >= visibleStartX(geom)
    /\ cardCenterX(i, position, geom) <= visibleEndX(geom)

\* line 373: Math.round((cardCenterX - visibleStartX) / cardWidth - 0.5), which
\* is the floor of the quotient
colIndexOf(i, position, geom) ==
    (cardCenterX(i, position, geom) - visibleStartX(geom)) \div (2 * cardWidth(geom))

\* lines 362-390: the rendered cards that are pushed, the first one per column
pushedCards(position, geom, n) ==
    LET takes(i) == /\ inVisibleArea(i, position, geom)
                    /\ colIndexOf(i, position, geom) >= 0
                    /\ colIndexOf(i, position, geom) < targetVisibleCards
    IN  { i \in renderedCards(n) :
            /\ takes(i)
            /\ \A j \in renderedCards(n) :
                  (j < i /\ takes(j)) =>
                      colIndexOf(j, position, geom) # colIndexOf(i, position, geom) }

\* lines 348-394 for one row: its cards sorted by column (gridPosition, the
\* pixel centre of the cell (rowIndex, colIndex), is left out)
rowCards(rowIndex, position, geom, items) ==
    LET n == Len(items)
        pushed == pushedCards(position, geom, n)
        before(i) == { j \in pushed : colIndexOf(j, position, geom)
                                        < colIndexOf(i, position, geom) }
    IN  [k \in 1..Cardinality(pushed) |->
            LET i == CHOOSE i \in pushed : Cardinality(before(i)) = k - 1
            IN  [ rowIndex |-> rowIndex,
                  colIndex |-> colIndexOf(i, position, geom),
                  cardIndex |-> i % n,
                  prizeId |-> items[(i % n) + 1].id ]]

\* getVisibleCards, lines 335-400: the rows' cards, one list per row (the
\* code returns them concatenated in row order); no row signals anything
getVisibleCards(rows, geom, items) ==
    IF Len(items) = 0 THEN [i \in 1..Len(rows) |-> <<>>]
    ELSE [i \in 1..Len(rows) |-> rowCards(i - 1, rows[i].position, geom, items)]

----------------------------------------------------------------------------
(* Values of the variables a specification does not use *)

MachineOff == m = initialState /\ last = Null

GeomOff ==
    /\ gPhase = "off"
    /\ gGeometry = [VIEW_W |-> 1, ITEM_W |-> 1]
    /\ gIndex = 0
    /\ gX = 0
    /\ gCentered = 0
    /\ pickCall = Null

PickOff == wCall = Null

modalClosed == [claimed |-> FALSE, loading |-> FALSE, error |-> NullStr]

FlowOff ==
    /\ env = [reducedMotion |-> FALSE, showDevControls |-> FALSE,
              geometry |-> [VIEW_W |-> 1, ITEM_W |-> 1]]
    /\ calls = {}
    /\ nextId = 0
    /\ live = 0
    /\ timeline = Null
    /\ carouselX = 0
    /\ modal = modalClosed
    /\ claimCalls = {}

SliderOff ==
    /\ sliderGeom = [cardSize |-> 0, containerWidth |-> 0]
    /\ rowStates = initialRowStates
    /\ decel = Null
    /\ decel2 = Null
    /\ sliderOp = Null
    /\ visible = Null

\* ClawMachineV2's state after mount
goInitial ==
    [ isSpinning |-> FALSE,
      isStopping |-> FALSE,
      showModal |-> FALSE,
      error |-> NullStr,
      playResult |-> Null,
      apiResult |-> Null ]

\* MultiRowSlider's highlightedCard and hiddenCard after mount
sliderUiInitial == [highlightedCard |-> Null, hiddenCard |-> Null]

\* App's constructor (scroll) and field initialisers; no spin requested yet
galleryInitial ==
    [ current |-> 0, target |-> 0, isSpinning |-> FALSE, isFrozen |-> FALSE,
      spin |-> Null, landed |-> Null ]

GalleryOff == gallery = galleryInitial

GoOff ==
    /\ go = goInitial
    /\ stopSeq = Null
    /\ sliderUi = sliderUiInitial

----------------------------------------------------------------------------
(* Spec: the reducer under arbitrary dispatches (useClawState.ts) *)

Dispatch(action) ==
    /\ m' = clawMachineReducer(m, action)
    /\ last' = Some([action |-> action, pre |-> m])
    /\ UNCHANGED <<prizes, geomVars, pickVars, flowVars, sliderVars, goVars, galleryVars>>

DoPlay == Dispatch([type |-> "PLAY"])
DoAttachResult == \E r \in PlayResults : Dispatch([type |-> "ATTACH_RESULT", payload |-> r])
DoDecelerate == Dispatch([type |-> "DECELERATE"])
DoGrab == Dispatch([type |-> "GRAB"])
DoReveal == Dispatch([type |-> "REVEAL"])
DoClaim == \E r \in ClaimResults : Dispatch([type |-> "CLAIM", payload |-> r])
DoReset == Dispatch([type |-> "RESET"])
DoSetCurrentX == \E x \in 0..MaxX : Dispatch([type |-> "SET_CURRENT_X", payload |-> x])
DoError == \E e \in ErrorMessages : Dispatch([type |-> "ERROR", payload |-> e])

Init ==
    /\ prizes \in CatalogsOfLen(MaxPayloadPrizes, {1})
    /\ MachineOff
    /\ GeomOff
    /\ PickOff
    /\ FlowOff
    /\ SliderOff
    /\ GoOff
    /\ GalleryOff

Next ==
    \/ DoPlay
    \/ DoAttachResult
    \/ DoDecelerate
    \/ DoGrab
    \/ DoReveal
    \/ DoClaim
    \/ DoReset
    \/ DoSetCurrentX
    \/ DoError

Spec == Init /\ [][Next]_vars

\* the dispatch the history variable records
lastAction == Val(last).action
lastPre == Val(last).pre

\* the valid-from sets of the transition table
ValidFrom(type) ==
    CASE type = "PLAY" -> {Idle}
      [] type = "ATTACH_RESULT" -> {Spinning}
      [] type = "DECELERATE" -> {Spinning, Decelerating}
      [] type = "GRAB" -> {Decelerating}
      [] type = "REVEAL" -> {Grabbing, Lifting}
      [] type = "CLAIM" -> {Reveal}
      [] OTHER -> MachineState

GuardedTypes == {"PLAY", "ATTACH_RESULT", "DECELERATE", "GRAB", "REVEAL", "CLAIM"}

\* C1: a guarded event dispatched outside its valid-from set returns the input
\* state unchanged in every field (state, playResult, claimResult, currentX,
\* highlightId, error); a second PLAY while not Idle is a no-op.
C1_InvalidTransitionIsNoOp ==
    (last # Null /\ lastAction.type \in GuardedTypes
                 /\ lastPre.state \notin ValidFrom(lastAction.type))
        => m = lastPre

\* C1 witness: a PLAY met a session that was not Idle and already held a result
C1_Witness ==
    /\ last # Null
    /\ lastAction.type = "PLAY"
    /\ lastPre.state = Reveal
    /\ lastPre.playResult # Null
    /\ m = lastPre

\* C3: every event dispatched from a state the transition table lists as valid
\* yields the listed result.
C3_TransitionTable ==
    (last # Null /\ lastPre.state \in ValidFrom(lastAction.type)) =>
        CASE lastAction.type = "PLAY" ->
                m = [lastPre EXCEPT !.state = Spinning, !.playResult = Null,
                                    !.claimResult = Null, !.error = NullStr]
          [] lastAction.type = "ATTACH_RESULT" ->
                /\ m.state = Spinning
                /\ m.playResult = Some(lastAction.payload)
                /\ m.claimResult = lastPre.claimResult
                /\ m.error = lastPre.error
          [] lastAction.type = "DECELERATE" -> m = [lastPre EXCEPT !.state = Decelerating]
          [] lastAction.type = "GRAB" -> m = [lastPre EXCEPT !.state = Grabbing]
          [] lastAction.type = "REVEAL" -> m = [lastPre EXCEPT !.state = Reveal]
          [] lastAction.type = "CLAIM" ->
                m = [lastPre EXCEPT !.state = Settle,
                                    !.claimResult = Some(lastAction.payload)]
          [] lastAction.type = "ERROR" ->
                m = [lastPre EXCEPT !.state = Idle, !.error = lastAction.payload]
          [] OTHER -> TRUE

\* C3 witness: a CLAIM dispatched in Reveal has stored its payload and settled
C3_Witness ==
    /\ last # Null
    /\ lastAction.type = "CLAIM"
    /\ lastPre.state = Reveal
    /\ lastPre.playResult # Null
    /\ m.state = Settle
    /\ m.claimResult = Some(lastAction.payload)

\* C4: RESET, dispatched in any reachable state, yields the initial session:
\* Idle with playResult, claimResult, highlightId and error all null.
C4_ResetClearsSession ==
    (last # Null /\ lastAction.type = "RESET") =>
        /\ m.state = Idle
        /\ m.playResult = Null
        /\ m.claimResult = Null
        /\ m.highlightId = NullStr
        /\ m.error = NullStr

\* C4 witness: a RESET met a settled session that held a result, a claim, a
\* highlight and a stale error
C4_Witness ==
    /\ last # Null
    /\ lastAction.type = "RESET"
    /\ lastPre.state = Settle
    /\ lastPre.playResult # Null
    /\ lastPre.claimResult # Null
    /\ lastPre.highlightId # NullStr
    /\ m = initialState

\* C30: in every state reachable by reducer actions highlightId is non-null
\* only if playResult is non-null, and then it is the id of playResult's prize;
\* after an accepted PLAY no tile is highlighted from an earlier play.
C30_HighlightFollowsPlayResult ==
    m.highlightId # NullStr =>
        /\ m.playResult # Null
        /\ m.highlightId = Val(m.playResult).prize.id

----------------------------------------------------------------------------
(* GeomSpec: utils.carousel.ts applied to bounded inputs *)

Geometries == [VIEW_W : 1..MaxView, ITEM_W : 1..MaxItem]

GeomInit ==
    /\ prizes \in Catalogs(0, MaxPrizes, {1})
    /\ gPhase = "init"
    /\ gGeometry \in Geometries
    /\ gIndex \in (-MaxIndex)..MaxIndex
    /\ gX = 0
    /\ gCentered = 0
    /\ pickCall = Null
    /\ MachineOff
    /\ PickOff
    /\ FlowOff
    /\ SliderOff
    /\ GoOff
    /\ GalleryOff

ApplyTranslateForIndex ==
    /\ gPhase = "init"
    /\ gX' = translateForIndex(gIndex, gGeometry.VIEW_W, gGeometry.ITEM_W)
    /\ gPhase' = "translated"
    /\ UNCHANGED <<prizes, gGeometry, gIndex, gCentered, pickCall,
                   machineVars, pickVars, flowVars, sliderVars, goVars, galleryVars>>

ApplyGetIndexFromX ==
    /\ gPhase = "translated"
    /\ gCentered' = getIndexFromX(gX, gGeometry.VIEW_W, gGeometry.ITEM_W)
    /\ gPhase' = "inverted"
    /\ UNCHANGED <<prizes, gGeometry, gIndex, gX, pickCall,
                   machineVars, pickVars, flowVars, sliderVars, goVars, galleryVars>>

\* lines 118-127 alone: what the fallback path gives for the same arguments
pickTargetIndexFallback(baseItems, targetId, fromIndex, minLaps2) ==
    LET baseLen == Len(baseItems)
        minDistance == CeilDiv(minLaps2 * baseLen, 2)
        minIndex == fromIndex + minDistance
    IN  pickFallback(baseItems, targetId, minIndex)

\* pickTargetIndex from fromIndex = gIndex, for a target in the catalog or not;
\* the fallback path's answer for the same call is recorded beside it
ApplyPickTargetIndex ==
    /\ gPhase = "init"
    /\ \E targetId \in { z.id : z \in Range(prizes) } \cup {AbsentId},
          minLaps2 \in 0..MaxLaps2 :
            pickCall' = Some([ targetId |-> targetId,
                               fromIndex |-> gIndex,
                               minLaps2 |-> minLaps2,
                               result |-> pickTargetIndex(prizes, targetId, gIndex, minLaps2),
                               fallback |-> pickTargetIndexFallback(prizes, targetId,
                                                                    gIndex, minLaps2) ])
    /\ gPhase' = "picked"
    /\ UNCHANGED <<prizes, gGeometry, gIndex, gX, gCentered,
                   machineVars, pickVars, flowVars, sliderVars, goVars, galleryVars>>

GeomNext ==
    \/ ApplyTranslateForIndex
    \/ ApplyGetIndexFromX
    \/ ApplyPickTargetIndex

GeomSpec == GeomInit /\ [][GeomNext]_vars

\* C6: getIndexFromX(translateForIndex(i, VIEW_W, ITEM_W), VIEW_W, ITEM_W) = i
\* for every integer i and all positive widths.
C6_InverseProperty == gPhase = "inverted" => gCentered = gIndex

\* the call the history variable records
pickArgs == Val(pickCall)
pickMinIndex == pickArgs.fromIndex + CeilDiv(pickArgs.minLaps2 * Len(prizes), 2)
pickTargetPresent == \E k \in 1..Len(prizes) : prizes[k].id = pickArgs.targetId

\* item_at(r) = catalog[r mod N] with the floored modulo
ItemAt(r) == prizes[(r % Len(prizes)) + 1]

\* C7: for every integer fromIndex and every catalog containing targetId,
\* pickTargetIndex returns the smallest r >= fromIndex + ceil(minLaps * N)
\* with item_at(r).id = targetId.
C7_SmallestQualifyingIndex ==
    (pickCall # Null /\ pickTargetPresent) =>
        /\ pickArgs.result.kind = "return"
        /\ pickArgs.result.index >= pickMinIndex
        /\ ItemAt(pickArgs.result.index).id = pickArgs.targetId
        /\ \A r \in pickMinIndex..(pickArgs.result.index - 1) :
              ItemAt(r).id # pickArgs.targetId

\* C24: for every catalog containing the target (unique ids) and every
\* fromIndex and minLaps >= 0, the closed-form fallback targetBaseIndex +
\* ceil((minIndex - targetBaseIndex) / N) * N equals the index found by the
\* linear scan from minIndex.
C24_ClosedFormAgreesWithScan ==
    (pickCall # Null /\ pickTargetPresent) => pickArgs.fallback = pickArgs.result

----------------------------------------------------------------------------
(* PickSpec: the two weighted picks applied to bounded inputs *)

\* the visible cards: up to MaxCards cards, each showing a prize of the catalog
CardLists ==
    UNION { [1..n -> { [prizeId |-> z.id] : z \in Range(prizes) }] : n \in 0..MaxCards }

PickInit ==
    /\ prizes \in Catalogs(0, MaxPrizes, 0..MaxWeight)
    /\ wCall = Null
    /\ MachineOff
    /\ GeomOff
    /\ FlowOff
    /\ SliderOff
    /\ GoOff
    /\ GalleryOff

ApplySelectPrizeByWeight ==
    /\ wCall = Null
    /\ \E random \in Draws(SumWeights(prizeWeights(prizes))) :
          wCall' = Some([ fn |-> "selectPrizeByWeight",
                          weights |-> prizeWeights(prizes),
                          random |-> random,
                          picked |-> selectPrizeByWeight(prizes, random) ])
    /\ UNCHANGED <<prizes, machineVars, geomVars, flowVars, sliderVars, goVars, galleryVars>>

\* weights records the prizes' own weights, which the claim is about; the
\* draw ranges over the total that selectWinningCard computes
ApplySelectWinningCard ==
    /\ wCall = Null
    /\ \E visibleCards \in CardLists :
       \E random \in Draws(SumWeights(cardWeights(prizes, visibleCards))) :
          wCall' = Some([ fn |-> "selectWinningCard",
                          weights |-> [k \in 1..Len(visibleCards) |->
                                         (CHOOSE z \in Range(prizes) :
                                            z.id = visibleCards[k].prizeId).weight],
                          random |-> random,
                          picked |-> selectWinningCard(prizes, visibleCards, random) ])
    /\ UNCHANGED <<prizes, machineVars, geomVars, flowVars, sliderVars, goVars, galleryVars>>

PickNext ==
    \/ ApplySelectPrizeByWeight
    \/ ApplySelectWinningCard

PickSpec == PickInit /\ [][PickNext]_vars

wArgs == Val(wCall)

\* C10: with a positive total weight, for every candidate order and every draw
\* in [0, totalWeight), 0 included, neither weighted pick returns a candidate
\* whose weight is 0.
C10_ZeroWeightNeverDrawn ==
    (wCall # Null /\ SumWeights(wArgs.weights) > 0) =>
        /\ wArgs.picked \in 1..Len(wArgs.weights)
        /\ wArgs.weights[wArgs.picked] # 0

\* C11: when the candidates' total weight is <= 0 (an empty list, or all
\* weights 0) the weighted pick fails with EmptyWeightPool and returns no
\* candidate, in selectPrizeByWeight and in selectWinningCard.
C11_EmptyPoolFails ==
    (wCall # Null /\ SumWeights(wArgs.weights) <= 0) =>
        pickOutcome(wArgs.picked) = "EmptyWeightPool"

----------------------------------------------------------------------------
(* SliderSpec: MultiRowSlider.tsx under arbitrary calls of its handle *)

\* the catalog length, items.length
itemCount == Len(prizes)

\* the velocities a start may draw for the rows
SpinVelocities == {MIN_SPIN_VELOCITY, MAX_SPIN_VELOCITY}

\* the measured geometries of the motion model; the container width plays no
\* part in the motion
SliderGeometries == [cardSize : {0, MaxCardSize}, containerWidth : {0}]

\* after mount: the initialization effect of lines 166-185 has put every row on
\* a random card boundary
SliderInit ==
    /\ prizes \in Catalogs(1, MaxItems, {1})
    /\ sliderGeom \in SliderGeometries
    /\ rowStates \in
          { [i \in 1..RowCount |->
                [initialRowStates[i] EXCEPT !.position =
                    snapPosition(c[i] * cardWidth(sliderGeom), sliderGeom, Len(prizes))]] :
            c \in [1..RowCount -> 0..(Len(prizes) - 1)] }
    /\ decel = Null
    /\ decel2 = Null
    /\ sliderOp = Null
    /\ visible = Null
    /\ MachineOff
    /\ GeomOff
    /\ PickOff
    /\ FlowOff
    /\ GoOff
    /\ GalleryOff

\* every row lies in [0, totalWidth)
inRange(rows, geom, n) ==
    \A i \in 1..Len(rows) : 0 <= rows[i].position /\ rows[i].position < totalWidth(geom, n)

\* one requestAnimationFrame callback of the animation loop; the model stops
\* following the frames once a row has left [0, totalWidth)
Tick ==
    /\ inRange(rowStates, sliderGeom, itemCount)
    /\ rowStates' = animate(rowStates, sliderGeom, itemCount)
    /\ sliderOp' = Null
    /\ UNCHANGED <<prizes, machineVars, geomVars, pickVars, flowVars, sliderGeom, decel, decel2, visible, goVars, galleryVars>>

StartContinuousSpin ==
    /\ \E velocities \in [1..RowCount -> SpinVelocities] :
          rowStates' = startContinuousSpin(rowStates, velocities)
    /\ sliderOp' = Null
    /\ UNCHANGED <<prizes, machineVars, geomVars, pickVars, flowVars, sliderGeom, decel, decel2, visible, goVars, galleryVars>>

\* stopSpinWithDeceleration's capture of the velocities
captureVelocities(rows) ==
    Some([ initialVelocities |-> [i \in 1..Len(rows) |-> rows[i].velocity],
           progress |-> 0 ])

\* stopSpinWithDeceleration up to its first frame: the velocities are captured
StopSpinWithDeceleration ==
    /\ decel = Null
    /\ decel' = Some([ initialVelocities |-> [i \in 1..RowCount |-> rowStates[i].velocity],
                       progress |-> 0 ])
    /\ sliderOp' = Null
    /\ UNCHANGED <<prizes, machineVars, geomVars, pickVars, flowVars, sliderGeom, rowStates, decel2, visible, goVars, galleryVars>>

\* ClawMachineV2.handleGO awaits the deceleration promise (line 132): when the
\* promise resolves, its continuation is the next microtask and starts the
\* settle wait before any other task runs
afterDeceleration(seq, resolved) ==
    IF resolved /\ seq # Null /\ Val(seq).pc = "decel"
    THEN Some([Val(seq) EXCEPT !.pc = "settle"])
    ELSE seq

\* one decelerate frame; the clock has not gone back since the last one
DecelerateFrame ==
    /\ decel # Null
    /\ \E k \in { p \in DecelProgress : p >= Val(decel).progress } :
          LET frame == decelerate(rowStates, Val(decel).initialVelocities, k)
          IN  /\ rowStates' = frame.rows
              /\ decel' = IF frame.resolved THEN Null
                          ELSE Some([Val(decel) EXCEPT !.progress = k])
              /\ sliderOp' = IF frame.resolved
                             THEN Some([op |-> "resolve", before |-> Null])
                             ELSE Null
              /\ stopSeq' = afterDeceleration(stopSeq, frame.resolved)
    /\ UNCHANGED <<prizes, machineVars, geomVars, pickVars, flowVars, sliderGeom, decel2, visible, go, sliderUi, galleryVars>>

SnapToGrid ==
    /\ rowStates' = snapPositionsToGrid(rowStates, sliderGeom, itemCount)
    /\ sliderOp' = Some([op |-> "snapToGrid", before |-> Some(rowStates)])
    /\ UNCHANGED <<prizes, machineVars, geomVars, pickVars, flowVars, sliderGeom, decel, decel2, visible, goVars, galleryVars>>

Freeze ==
    /\ rowStates' = freeze(rowStates)
    /\ sliderOp' = Null
    /\ UNCHANGED <<prizes, machineVars, geomVars, pickVars, flowVars, sliderGeom, decel, decel2, visible, goVars, galleryVars>>

Unfreeze ==
    /\ rowStates' = unfreeze(rowStates)
    /\ sliderOp' = Null
    /\ UNCHANGED <<prizes, machineVars, geomVars, pickVars, flowVars, sliderGeom, decel, decel2, visible, goVars, galleryVars>>

SliderNext ==
    \/ Tick
    \/ StartContinuousSpin
    \/ StopSpinWithDeceleration
    \/ DecelerateFrame
    \/ SnapToGrid
    \/ Freeze
    \/ Unfreeze

SliderSpec == SliderInit /\ [][SliderNext]_vars

\* the spin velocities of the flow: the slowest, which keeps a row of one card
\* inside [0, totalWidth)
GoVelocities == {MIN_SPIN_VELOCITY}

\* C28: in every state of the multi-row slider reachable by ticks,
\* startContinuousSpin, stopSpinWithDeceleration, snapToGrid, freeze and
\* unfreeze in any order, a row with frozen = true has velocity 0.
C28_FrozenHasZeroVelocity ==
    \A i \in 1..RowCount : rowStates[i].frozen => rowStates[i].velocity = 0

\* every row is frozen while a deceleration of spinning rows is still pending
C28_Witness ==
    /\ decel # Null
    /\ allFrozen(rowStates)
    /\ \E i \in 1..RowCount : Val(decel).initialVelocities[i] > IDLE_VELOCITY

\* SliderLiveSpec: the deceleration calls of the slider, two of them at most
\* pending together, on the slowest spin of the smallest strip

SliderLiveInit ==
    /\ prizes \in CatalogsOfLen(GoItems, {1})
    /\ sliderGeom = [cardSize |-> 0, containerWidth |-> 0]
    /\ rowStates = initialRowStates
    /\ decel = Null
    /\ decel2 = Null
    /\ sliderOp = Null
    /\ visible = Null
    /\ MachineOff
    /\ GeomOff
    /\ PickOff
    /\ FlowOff
    /\ GoOff
    /\ GalleryOff

LiveStartContinuousSpin ==
    /\ \E velocities \in [1..RowCount -> GoVelocities] :
          rowStates' = startContinuousSpin(rowStates, velocities)
    /\ sliderOp' = Null
    /\ UNCHANGED <<prizes, machineVars, geomVars, pickVars, flowVars, sliderGeom,
                   decel, decel2, visible, goVars, galleryVars>>

\* stopSpinWithDeceleration called while an earlier call is pending
SecondStopSpinWithDeceleration ==
    /\ decel # Null
    /\ decel2 = Null
    /\ decel2' = captureVelocities(rowStates)
    /\ sliderOp' = Null
    /\ UNCHANGED <<prizes, machineVars, geomVars, pickVars, flowVars, sliderGeom,
                   rowStates, decel, visible, goVars, galleryVars>>

\* one decelerate frame of that later call
SecondDecelerateFrame ==
    /\ decel2 # Null
    /\ \E k \in { p \in DecelProgress : p >= Val(decel2).progress } :
          LET frame == decelerate(rowStates, Val(decel2).initialVelocities, k)
          IN  /\ rowStates' = frame.rows
              /\ decel2' = IF frame.resolved THEN Null
                           ELSE Some([Val(decel2) EXCEPT !.progress = k])
              /\ sliderOp' = IF frame.resolved
                             THEN Some([op |-> "resolve", before |-> Null])
                             ELSE Null
    /\ UNCHANGED <<prizes, machineVars, geomVars, pickVars, flowVars, sliderGeom,
                   decel, visible, goVars, galleryVars>>

SliderLiveNext ==
    \/ Tick
    \/ LiveStartContinuousSpin
    \/ StopSpinWithDeceleration
    \/ SecondStopSpinWithDeceleration
    \/ DecelerateFrame
    \/ SecondDecelerateFrame
    \/ SnapToGrid
    \/ Freeze
    \/ Unfreeze

\* a decelerate frame at which Date.now() is later than at the frame before
clockAdvanced(before, after) ==
    after = Null \/ Val(after).progress > Val(before).progress

\* animation frames keep firing and the clock advances
SliderFairness ==
    /\ WF_vars(DecelerateFrame /\ clockAdvanced(decel, decel'))
    /\ WF_vars(SecondDecelerateFrame /\ clockAdvanced(decel2, decel2'))

SliderLiveSpec == SliderLiveInit /\ [][SliderLiveNext]_vars /\ SliderFairness

\* C27: given that animation frames keep firing and the clock advances, every
\* call of stopSpinWithDeceleration(duration) eventually resolves, also when
\* startContinuousSpin, unfreeze or a second stopSpinWithDeceleration is
\* invoked while it is in progress.
C27_DecelerationResolves ==
    /\ (decel # Null) ~> (decel = Null)
    /\ (decel2 # Null) ~> (decel2 = Null)

\* a second call was made during the first, the rows were set spinning again,
\* and the first call has resolved since
C27_Witness ==
    /\ decel = Null
    /\ decel2 # Null
    /\ Val(decel2).progress > 0
    /\ \E i \in 1..RowCount : ~rowStates[i].frozen /\ rowStates[i].velocity > IDLE_VELOCITY

sliderEvent == Val(sliderOp)

\* C13: the promise returned by stopSpinWithDeceleration resolves only in a
\* state in which every row is frozen with velocity 0; it never resolves while
\* some row is still moving.
C13_ResolvesWhenAllFrozen ==
    (sliderOp # Null /\ sliderEvent.op = "resolve") =>
        \A i \in 1..RowCount : rowStates[i].frozen /\ rowStates[i].velocity = 0

\* C13 witness: a deceleration has resolved with the rows stopped where they
\* were, one of them between two card boundaries
C13_Witness ==
    /\ sliderOp # Null
    /\ sliderEvent.op = "resolve"
    /\ decel = Null
    /\ allFrozen(rowStates)
    /\ \E i \in 1..RowCount : rowStates[i].position % cardWidth(sliderGeom) # 0

\* the multiples of w nearest to x (two of them when x lies halfway)
NearestMultiples(x, w) ==
    { y \in { (x \div w) * w, (x \div w) * w + w } :
        \A z \in { (x \div w) * w, (x \div w) * w + w } : Abs(y - x) <= Abs(z - x) }

\* C14: snapToGrid sets every row's position to the multiple of
\* (cardSize + gap) nearest to the row's position before the call, reduced
\* into [0, totalWidth).
C14_SnapToNearestMultiple ==
    (sliderOp # Null /\ sliderEvent.op = "snapToGrid") =>
        \A i \in 1..RowCount :
            \E y \in NearestMultiples(Val(sliderEvent.before)[i].position,
                                      cardWidth(sliderGeom)) :
                rowStates[i].position = y % totalWidth(sliderGeom, itemCount)

\* C14 witness: a snap met a row less than half a card before the end of the
\* strip and put it on 0, and met another row that it moved back
C14_Witness ==
    /\ sliderOp # Null
    /\ sliderEvent.op = "snapToGrid"
    /\ \E i \in 1..RowCount :
          /\ Val(sliderEvent.before)[i].position % cardWidth(sliderGeom) # 0
          /\ Val(sliderEvent.before)[i].position < totalWidth(sliderGeom, itemCount)
          /\ rowStates[i].position = 0
    /\ \E i \in 1..RowCount :
          /\ rowStates[i].position < Val(sliderEvent.before)[i].position
          /\ rowStates[i].position > 0

----------------------------------------------------------------------------
(* GridSpec: snapToGrid and getVisibleCards applied to rows at rest *)

\* container widths of the grid model: one whose five-card window is filled
\* by five cards on a snapped row, one that is too wide for that
GridWidths == {GridWidth, GridWidth + 20}

GridGeometries == [cardSize : {GridCardSize}, containerWidth : GridWidths]

\* rows as a deceleration leaves them: frozen, anywhere in [0, totalWidth)
GridInit ==
    /\ prizes \in Catalogs(1, MaxGridItems, {1})
    /\ sliderGeom \in GridGeometries
    /\ rowStates \in
          { freeze([i \in 1..RowCount |-> [initialRowStates[i] EXCEPT !.position = x[i]]]) :
            x \in [1..RowCount -> 0..(totalWidth(sliderGeom, Len(prizes)) - 1)] }
    /\ decel = Null
    /\ decel2 = Null
    /\ sliderOp = Null
    /\ visible = Null
    /\ MachineOff
    /\ GeomOff
    /\ PickOff
    /\ FlowOff
    /\ GoOff
    /\ GalleryOff

GridSnapToGrid ==
    /\ visible = Null
    /\ sliderOp = Null
    /\ rowStates' = snapPositionsToGrid(rowStates, sliderGeom, itemCount)
    /\ sliderOp' = Some([op |-> "snapToGrid", before |-> Null])
    /\ UNCHANGED <<prizes, machineVars, geomVars, pickVars, flowVars, sliderGeom, decel, decel2, visible, goVars, galleryVars>>

GridGetVisibleCards ==
    /\ visible = Null
    /\ visible' = Some(getVisibleCards(rowStates, sliderGeom, prizes))
    /\ UNCHANGED <<prizes, machineVars, geomVars, pickVars, flowVars,
                   sliderGeom, rowStates, decel, decel2, sliderOp, goVars, galleryVars>>

GridNext ==
    \/ GridSnapToGrid
    \/ GridGetVisibleCards

GridSpec == GridInit /\ [][GridNext]_vars

\* the cards getVisibleCards returned for one row
visibleRow(r) == Val(visible)[r]

\* a row's list is the full grid row: five entries, columns 0..4 in order
FullRow(cards) ==
    /\ Len(cards) = targetVisibleCards
    /\ \A k \in 1..Len(cards) : cards[k].colIndex = k - 1

\* no two entries of a row refer to the same catalog index
DistinctCards(cards) ==
    \A k, l \in 1..Len(cards) : k # l => cards[k].cardIndex # cards[l].cardIndex

\* the rows were snapped before the call
afterSnap == sliderOp # Null /\ sliderEvent.op = "snapToGrid"

firstCentreOffset(geom) == (cardWidth(geom) - visibleStartX(geom)) % (2 * cardWidth(geom))
firstCentreCard(geom) ==
    (visibleStartX(geom) + firstCentreOffset(geom) - cardWidth(geom)) \div (2 * cardWidth(geom))

\* five card centres lie in the window on every snapped row, all of them on
\* rendered cards
FiveCardsFit(geom, n) ==
    /\ firstCentreOffset(geom) <= 2 * (cardWidth(geom) - gapSize)
    /\ firstCentreCard(geom) >= 0
    /\ firstCentreCard(geom) + (n - 1) + (targetVisibleCards - 1) <= 3 * n - 1

C16_PartialRowSignalsNotAligned ==
    visible # Null => \A r \in 1..RowCount : Len(visibleRow(r)) >= targetVisibleCards

----------------------------------------------------------------------------
(* FlowSpec: the single-carousel container, ClawMachine.tsx *)

\* timelineRef.current.kill()
kill(tl) == IF tl = Null THEN Null ELSE Some([Val(tl) EXCEPT !.alive = FALSE])

\* ResultModal's effect on isOpen becoming true: claimed and error are reset
modalAfter(next) ==
    IF isRevealOpen(next) /\ ~isRevealOpen(m)
    THEN [modal EXCEPT !.claimed = FALSE, !.error = NullStr]
    ELSE modal

showSkip == env.showDevControls \/ env.reducedMotion

\* the measured geometries of the flow: the widest viewport, every tile width
FlowGeometries == { g \in Geometries : g.VIEW_W = MaxView }

FlowInit ==
    /\ prizes \in Catalogs(MaxPrizes - 1, MaxPrizes, {1})
    /\ env \in [reducedMotion : BOOLEAN, showDevControls : BOOLEAN,
                geometry : FlowGeometries]
    /\ calls = {}
    /\ nextId = 0
    /\ live = 0
    /\ timeline = Null
    /\ carouselX = 0
    /\ modal = modalClosed
    /\ claimCalls = {}
    /\ MachineOff
    /\ GeomOff
    /\ PickOff
    /\ SliderOff
    /\ GoOff
    /\ GalleryOff

\* handlePlay up to the await: the canPlay guard, PLAY, and the allocator call
handlePlay ==
    /\ canPlay(m)
    /\ nextId < MaxPlays
    /\ m' = clawMachineReducer(m, [type |-> "PLAY"])
    /\ nextId' = nextId + 1
    /\ calls' = calls \cup {nextId + 1}
    /\ live' = nextId + 1
    /\ modal' = modalAfter(m')
    /\ UNCHANGED <<prizes, last, geomVars, pickVars, env, timeline, carouselX, claimCalls, sliderVars, goVars, galleryVars>>

\* a sequence that leaves the GRAB dispatch out
playAnimationSequenceNoGrab(state, playId, targetPrizeId) ==
    LET geometry == env.geometry
        currentX == carouselX
        fromIndex == getIndexFromX(currentX, geometry.VIEW_W, geometry.ITEM_W)
        targetIndex == pickTargetIndex(prizes, targetPrizeId, fromIndex, MIN_LAPS2)
    IN  IF targetIndex.kind # "return"
        THEN [ m |-> clawMachineReducer(state, [type |-> "ERROR", payload |-> "TypeError"]),
               timeline |-> kill(timeline) ]
        ELSE [ m |-> reduceAll(state, <<[type |-> "DECELERATE"]>>),
               timeline |-> Some([ alive |-> TRUE,
                                   phase |-> "spin",
                                   play |-> playId,
                                   prizeId |-> targetPrizeId,
                                   targetX |-> translateForIndex(targetIndex.index,
                                                  geometry.VIEW_W, geometry.ITEM_W) ]) ]

\* playAnimationSequence(targetPrizeId) run on `state` for the call playId: the
\* machine state and the timeline it leaves.  pickTargetIndex may throw; the
\* old timeline is killed before that, and handlePlay's catch dispatches ERROR.
playAnimationSequence(state, playId, targetPrizeId) ==
    LET geometry == env.geometry
        currentX == carouselX
        fromIndex == getIndexFromX(currentX, geometry.VIEW_W, geometry.ITEM_W)
        targetIndex == pickTargetIndex(prizes, targetPrizeId, fromIndex, MIN_LAPS2)
    IN  IF targetIndex.kind # "return"
        THEN [ m |-> clawMachineReducer(state, [type |-> "ERROR", payload |-> "TypeError"]),
               timeline |-> kill(timeline) ]
        ELSE [ m |-> reduceAll(state, <<[type |-> "DECELERATE"], [type |-> "GRAB"]>>),
               timeline |-> Some([ alive |-> TRUE,
                                   phase |-> "spin",
                                   play |-> playId,
                                   prizeId |-> targetPrizeId,
                                   targetX |-> translateForIndex(targetIndex.index,
                                                  geometry.VIEW_W, geometry.ITEM_W) ]) ]

\* handlePlay after the await: mockApi.play() resolved for call c
AllocatorResolve ==
    \E c \in calls :
    \E random \in Draws(SumWeights(prizeWeights(prizes))) :
        LET result == [playId |-> c, prize |-> prizes[selectPrizeByWeight(prizes, random)]]
            attached == clawMachineReducer(m, [type |-> "ATTACH_RESULT", payload |-> result])
            animated == playAnimationSequence(attached, c, result.prize.id)
        IN  /\ calls' = calls \ {c}
            /\ IF env.reducedMotion
               THEN /\ m' = reduceAll(attached, <<[type |-> "DECELERATE"],
                                                  [type |-> "GRAB"], [type |-> "REVEAL"]>>)
                    /\ timeline' = timeline
               ELSE /\ m' = animated.m
                    /\ timeline' = animated.timeline
            /\ modal' = modalAfter(m')
            /\ UNCHANGED <<prizes, last, geomVars, pickVars, env, nextId, live,
                           carouselX, claimCalls, sliderVars, goVars, galleryVars>>

\* handlePlay's catch: the allocator call c failed
AllocatorReject ==
    \E c \in calls :
        /\ calls' = calls \ {c}
        /\ m' = clawMachineReducer(m, [type |-> "ERROR", payload |-> "Failed to fetch prize"])
        /\ modal' = modalAfter(m')
        /\ UNCHANGED <<prizes, last, geomVars, pickVars, env, nextId, live,
                       timeline, carouselX, claimCalls, sliderVars, goVars, galleryVars>>

timelineRuns == timeline # Null /\ Val(timeline).alive

\* the timeline reaches the label spin:decel
TimelineSpinEnd ==
    /\ timelineRuns
    /\ Val(timeline).phase = "spin"
    /\ timeline' = Some([Val(timeline) EXCEPT !.phase = "decel"])
    /\ m' = clawMachineReducer(m, [type |-> "SET_CURRENT_X", payload |-> carouselX])
    /\ UNCHANGED <<prizes, last, geomVars, pickVars, env, calls, nextId, live,
                   carouselX, modal, claimCalls, sliderVars, goVars, galleryVars>>

\* the deceleration tween (x: targetX, power3.out) completes: the strip rests
\* at targetX and onUpdate has reported it
TimelineDecelEnd ==
    /\ timelineRuns
    /\ Val(timeline).phase = "decel"
    /\ timeline' = Some([Val(timeline) EXCEPT !.phase = "claw"])
    /\ carouselX' = Val(timeline).targetX
    /\ m' = clawMachineReducer(m, [type |-> "SET_CURRENT_X", payload |-> carouselX'])
    /\ UNCHANGED <<prizes, last, geomVars, pickVars, env, calls, nextId, live,
                   modal, claimCalls, sliderVars, goVars, galleryVars>>

\* the claw calls are done and the timeline reaches the label reveal
TimelineReveal ==
    /\ timelineRuns
    /\ Val(timeline).phase = "claw"
    /\ timeline' = Some([Val(timeline) EXCEPT !.phase = "done", !.alive = FALSE])
    /\ m' = clawMachineReducer(m, [type |-> "REVEAL"])
    /\ modal' = modalAfter(m')
    /\ UNCHANGED <<prizes, last, geomVars, pickVars, env, calls, nextId, live,
                   carouselX, claimCalls, sliderVars, goVars, galleryVars>>

handleSkip ==
    /\ showSkip
    /\ timeline' = kill(timeline)
    /\ m' = reduceAll(m, <<[type |-> "DECELERATE"], [type |-> "GRAB"], [type |-> "REVEAL"]>>)
    /\ modal' = modalAfter(m')
    /\ UNCHANGED <<prizes, last, geomVars, pickVars, env, calls, nextId, live,
                   carouselX, claimCalls, sliderVars, goVars, galleryVars>>

\* ResultModal.handleClaim up to the await; the button exists once the modal
\* renders (isOpen, prize, playId) and is enabled while not loading or claimed
modalHandleClaim ==
    /\ isRevealOpen(m)
    /\ m.playResult # Null
    /\ ~modal.claimed
    /\ ~modal.loading
    /\ modal' = [modal EXCEPT !.loading = TRUE, !.error = NullStr]
    /\ claimCalls' = claimCalls \cup
          {[playId |-> Val(m.playResult).playId, prizeId |-> Val(m.playResult).prize.id]}
    /\ UNCHANGED <<prizes, machineVars, geomVars, pickVars, env, calls, nextId, live,
                   timeline, carouselX, sliderVars, goVars, galleryVars>>

claimOutcomeAlways(state, result) ==
    clawMachineReducer(state, [type |-> "CLAIM", payload |-> result])

\* ResultModal.handleClaim's use of the collaborator's answer: onClaim, and so
\* the container's handleClaim and the CLAIM action, only on success
claimOutcome(state, result) ==
    IF result.success
    THEN clawMachineReducer(state, [type |-> "CLAIM", payload |-> result])
    ELSE state

\* the claim call c has returned with the given success flag
ClaimResult(c, success) ==
    LET result == [playId |-> c.playId, prizeId |-> c.prizeId, success |-> success]
    IN  /\ claimCalls' = claimCalls \ {c}
        /\ m' = claimOutcome(m, result)
        /\ modal' = IF success
                    THEN [modal EXCEPT !.claimed = TRUE, !.loading = FALSE]
                    ELSE [modal EXCEPT !.loading = FALSE,
                             !.error = "Failed to claim prize. Please try again."]
        /\ UNCHANGED <<prizes, last, geomVars, pickVars, env, calls, nextId, live,
                       timeline, carouselX, sliderVars, goVars, galleryVars>>

\* ResultModal.handleClaim after the await, and the container's handleClaim
ClaimResolve == \E c \in claimCalls, success \in BOOLEAN : ClaimResult(c, success)

\* Esc while the modal is open, or its overlay / close button
handleCloseModal ==
    /\ isRevealOpen(m)
    /\ m' = clawMachineReducer(m, [type |-> "RESET"])
    /\ timeline' = kill(timeline)
    /\ UNCHANGED <<prizes, last, geomVars, pickVars, env, calls, nextId, live,
                   carouselX, modal, claimCalls, sliderVars, goVars, galleryVars>>

FlowNext ==
    \/ handlePlay
    \/ AllocatorResolve
    \/ AllocatorReject
    \/ TimelineSpinEnd
    \/ TimelineDecelEnd
    \/ TimelineReveal
    \/ handleSkip
    \/ modalHandleClaim
    \/ ClaimResolve
    \/ handleCloseModal

FlowSpec == FlowInit /\ [][FlowNext]_vars

\* C2: an allocator response that arrives after the machine has left the
\* Spinning state of the play that requested it is discarded: the live
\* session never holds the result of an earlier play's allocator call.
C2_StaleResponseDiscarded ==
    m.playResult # Null => Val(m.playResult).playId = live

\* C5: at every moment at most one call to the allocator is outstanding.
C5_OneOutstandingCall == Cardinality(calls) <= 1

\* C8: when the deceleration has ended at targetX, the item the geometry
\* inverse reports as centered there is the prize the allocator returned for
\* that play.
C8_TargetIsCentered ==
    (timeline # Null /\ Val(timeline).phase \in {"claw", "done"}
                     /\ carouselX = Val(timeline).targetX) =>
        ItemAt(getIndexFromX(carouselX, env.geometry.VIEW_W, env.geometry.ITEM_W)).id
            = Val(timeline).prizeId

\* C19: if the allocator call of a play resolves after a Reset has returned
\* the machine to Idle, its result is ignored: no session field changes and no
\* carousel/claw animation timeline is started for it, so no animation runs
\* while the machine is Idle.
C19_LateResultIgnored ==
    [][(AllocatorResolve /\ m = initialState) =>
          /\ m' = m
          /\ timeline' = timeline
          /\ ~timelineRuns']_vars

\* the deceleration tween of the live timeline has completed
decelerationCompleted ==
    timeline # Null /\ Val(timeline).phase \in {"claw", "done"}

\* C22: during an animated play in the single-carousel flow, the machine is
\* in Decelerating while the deceleration tween runs and enters Grabbing only
\* once the carousel has stopped and the claw drop begins; Grabbing is never
\* entered before the deceleration tween has completed.
C22_GrabbingAfterDeceleration ==
    (~env.reducedMotion /\ m.state = Grabbing) => decelerationCompleted

\* C25: in every reachable state of the single-carousel play flow, state in
\* {Grabbing, Reveal, Settle} implies playResult is non-null: GRAB is never
\* accepted in a session in which no result has been attached, including when
\* Skip is pressed before the allocator responds.
C25_GrabNeedsResult ==
    m.state \in {Grabbing, Reveal, Settle} => m.playResult # Null

\* the allocator eventually responds or fails, and a started timeline runs to
\* completion
FlowFairness ==
    /\ WF_vars(AllocatorResolve \/ AllocatorReject)
    /\ WF_vars(TimelineSpinEnd)
    /\ WF_vars(TimelineDecelEnd)
    /\ WF_vars(TimelineReveal)

FlowLiveSpec == FlowInit /\ [][FlowNext]_vars /\ FlowFairness

playUnderWay == m.state \in {Spinning, Decelerating, Grabbing}
playEnded == m.state = Reveal \/ (m.state = Idle /\ m.error # NullStr)

\* C26: assuming the allocator eventually responds or fails and a started
\* timeline runs to completion, every accepted Play in the single-carousel
\* flow eventually reaches Reveal or returns to Idle with an error; the
\* machine never remains in Spinning, Decelerating or Grabbing forever, for
\* the first play and for every later play in a sequence.
C26_PlayTerminates == playUnderWay ~> playEnded

\* a later play of the sequence has reached Reveal through its timeline
C26_Witness ==
    /\ nextId = MaxPlays
    /\ m.state = Reveal
    /\ timeline # Null
    /\ Val(timeline).phase = "done"
    /\ Val(timeline).play = MaxPlays

\* the result modal is on screen: it renders only with a prize and a playId
modalShown(state) == isRevealOpen(state) /\ state.playResult # Null

\* the claim button of the result modal can be pressed
claimAccepted(state, mod) ==
    /\ modalShown(state)
    /\ ~mod.claimed
    /\ ~mod.loading

\* C18: when the claim collaborator returns success = false, no CLAIM, RESET
\* or ERROR transition is taken (the machine state is left as it was); with
\* the modal open the machine stays in Reveal with claimResult null and the
\* modal open, and a further claim attempt is accepted without a new spin.
C18_ClaimFailureKeepsReveal ==
    [][(\E c \in claimCalls : ClaimResult(c, FALSE)) =>
          /\ m' = m
          /\ modalShown(m) =>
                /\ modalShown(m')
                /\ m'.claimResult = Null
                /\ claimAccepted(m', modal')]_vars

\* a claim has failed on the open reveal: the message is shown inline
C18_Witness ==
    /\ modalShown(m)
    /\ m.claimResult = Null
    /\ modal.error = "Failed to claim prize. Please try again."
    /\ ~modal.loading
    /\ claimCalls = {}

----------------------------------------------------------------------------
(* GoSpec: the multi-row container, ClawMachineV2.tsx, over MultiRowSlider.  *)
(* The phantom card, the display slot and the claw overlay are presentation  *)
(* and are left out; the waits of the stop sequence are its positions.       *)

\* the geometries of the flow: the smallest card in a container whose window
\* starts on a card centre when the rows are snapped, and in a wide container
\* (clientWidth is measured) whose window begins to the right of the last
\* rendered card
GoGeometries == [cardSize : {0}, containerWidth : {GoWidth, GoWideWidth}]

\* the rows' lists in row order, as getVisibleCards returns them
RECURSIVE Flatten(_)
Flatten(lists) == IF lists = <<>> THEN <<>> ELSE Head(lists) \o Flatten(Tail(lists))

GoInit ==
    /\ prizes \in CatalogsOfLen(GoItems, {1})
    /\ sliderGeom \in GoGeometries
    /\ rowStates \in
          { [i \in 1..RowCount |->
                [initialRowStates[i] EXCEPT !.position =
                    snapPosition(c[i] * cardWidth(sliderGeom), sliderGeom, Len(prizes))]] :
            c \in [1..RowCount -> 0..(Len(prizes) - 1)] }
    /\ decel = Null
    /\ decel2 = Null
    /\ sliderOp = Null
    /\ visible = Null
    /\ env \in [reducedMotion : {FALSE}, showDevControls : BOOLEAN,
                geometry : {[VIEW_W |-> 1, ITEM_W |-> 1]}]
    /\ calls = {}
    /\ nextId = 0
    /\ live = 0
    /\ timeline = Null
    /\ carouselX = 0
    /\ modal = modalClosed
    /\ claimCalls = {}
    /\ go = goInitial
    /\ stopSeq = Null
    /\ sliderUi = sliderUiInitial
    /\ MachineOff
    /\ GeomOff
    /\ PickOff
    /\ GalleryOff

\* the button is disabled while isStopping
buttonEnabled == ~go.isStopping

\* handleGO, lines 230-248: GO pressed while not spinning, up to the await
handleGO ==
    /\ buttonEnabled
    /\ ~go.isSpinning
    /\ nextId < MaxPlays
    /\ go' = [go EXCEPT !.isSpinning = TRUE, !.error = NullStr]
    /\ sliderUi' = sliderUiInitial
    /\ nextId' = nextId + 1
    /\ calls' = calls \cup {nextId + 1}
    /\ live' = nextId + 1
    /\ UNCHANGED <<prizes, machineVars, geomVars, pickVars, env, timeline, carouselX,
                   modal, claimCalls, sliderVars, stopSeq, galleryVars>>

\* handleGO, lines 248-257: mockApi.play() resolved for call c
GoAllocatorResolve ==
    \E c \in calls :
    \E random \in Draws(SumWeights(prizeWeights(prizes))) :
    \E velocities \in [1..RowCount -> GoVelocities] :
        /\ calls' = calls \ {c}
        /\ go' = [go EXCEPT !.apiResult =
                     Some([playId |-> c,
                           prize |-> prizes[selectPrizeByWeight(prizes, random)]])]
        /\ rowStates' = startContinuousSpin(rowStates, velocities)
        /\ sliderUi' = [sliderUi EXCEPT !.highlightedCard = Null]
        /\ UNCHANGED <<prizes, machineVars, geomVars, pickVars, env, nextId, live,
                       timeline, carouselX, modal, claimCalls,
                       sliderGeom, decel, decel2, sliderOp, visible, stopSeq, galleryVars>>

\* handleGO, lines 258-261: mockApi.play() failed for call c
GoAllocatorReject ==
    \E c \in calls :
        /\ calls' = calls \ {c}
        /\ go' = [go EXCEPT !.error = "Failed to play", !.isSpinning = FALSE]
        /\ UNCHANGED <<prizes, machineVars, geomVars, pickVars, env, nextId, live,
                       timeline, carouselX, modal, claimCalls, sliderVars,
                       stopSeq, sliderUi, galleryVars>>

\* handleGO, lines 116-132: STOP pressed while spinning.  It waits first when
\* the spin of the live play started less than a second ago, which needs the
\* allocator to have answered.
handleGOStop ==
    /\ buttonEnabled
    /\ go.isSpinning
    /\ stopSeq = Null
    /\ go' = [go EXCEPT !.isStopping = TRUE]
    /\ \E wait \in BOOLEAN :
          /\ wait => (live \notin calls /\ go.apiResult # Null)
          /\ IF wait
             THEN /\ stopSeq' = Some([pc |-> "minSpin", winningCard |-> Null,
                                      hideTimer |-> FALSE])
                  /\ decel' = decel
             ELSE /\ stopSeq' = Some([pc |-> "decel", winningCard |-> Null,
                                      hideTimer |-> FALSE])
                  /\ decel' = captureVelocities(rowStates)
    /\ UNCHANGED <<prizes, machineVars, geomVars, pickVars, flowVars,
                   sliderGeom, rowStates, sliderOp, decel2, visible, sliderUi, galleryVars>>

\* lines 126-132: the minimum spin time has passed
GoMinSpinDone ==
    /\ stopSeq # Null
    /\ Val(stopSeq).pc = "minSpin"
    /\ stopSeq' = Some([Val(stopSeq) EXCEPT !.pc = "decel"])
    /\ decel' = captureVelocities(rowStates)
    /\ UNCHANGED <<prizes, machineVars, geomVars, pickVars, flowVars,
                   sliderGeom, rowStates, sliderOp, decel2, visible, go, sliderUi, galleryVars>>

\* lines 137-162: after the settle wait the winning card is sampled from the
\* visible cards.  With no visible card selectWinningCard returns undefined and
\* reading its prizeId throws: the sequence ends there, isStopping still true.
GoSample ==
    /\ stopSeq # Null
    /\ Val(stopSeq).pc = "settle"
    /\ \E visibleCards \in {Flatten(getVisibleCards(rowStates, sliderGeom, prizes))} :
       \E random \in Draws(SumWeights(cardWeights(prizes, visibleCards))) :
       \E k \in {selectWinningCard(prizes, visibleCards, random)} :
          stopSeq' = IF k = 0 THEN Null
                     ELSE Some([Val(stopSeq) EXCEPT
                                  !.pc = "phantom",
                                  !.winningCard = Some(visibleCards[k])])
    /\ UNCHANGED <<prizes, machineVars, geomVars, pickVars, flowVars,
                   sliderVars, go, sliderUi, galleryVars>>

\* lines 165-183: the phantom card is in the DOM, the claw starts
GoClawStart ==
    /\ stopSeq # Null
    /\ Val(stopSeq).pc = "phantom"
    /\ stopSeq' = Some([Val(stopSeq) EXCEPT !.pc = "suspense"])
    /\ UNCHANGED <<prizes, machineVars, geomVars, pickVars, flowVars,
                   sliderVars, go, sliderUi, galleryVars>>

\* lines 187-205: after the suspense wait the winning card is highlighted and
\* the timer that hides it is set
GoHighlight ==
    /\ stopSeq # Null
    /\ Val(stopSeq).pc = "suspense"
    /\ sliderUi' = [sliderUi EXCEPT !.highlightedCard =
                      Some([row |-> Val(Val(stopSeq).winningCard).rowIndex,
                            col |-> Val(Val(stopSeq).winningCard).colIndex])]
    /\ stopSeq' = Some([Val(stopSeq) EXCEPT !.pc = "claw", !.hideTimer = TRUE])
    /\ UNCHANGED <<prizes, machineVars, geomVars, pickVars, flowVars,
                   sliderVars, go, galleryVars>>

\* lines 194-197: the timer set 1100 ms before fires while the claw descends
GoHideTimer ==
    /\ stopSeq # Null
    /\ Val(stopSeq).hideTimer
    /\ sliderUi' = [ hiddenCard |-> Some([row |-> Val(Val(stopSeq).winningCard).rowIndex,
                                          col |-> Val(Val(stopSeq).winningCard).colIndex]),
                     highlightedCard |-> Null ]
    /\ stopSeq' = Some([Val(stopSeq) EXCEPT !.hideTimer = FALSE])
    /\ UNCHANGED <<prizes, machineVars, geomVars, pickVars, flowVars,
                   sliderVars, go, galleryVars>>

\* lines 207-213: the claw has delivered the card
GoClawDelivered ==
    /\ stopSeq # Null
    /\ Val(stopSeq).pc = "claw"
    /\ ~Val(stopSeq).hideTimer
    /\ stopSeq' = Some([Val(stopSeq) EXCEPT !.pc = "bounce"])
    /\ UNCHANGED <<prizes, machineVars, geomVars, pickVars, flowVars,
                   sliderVars, go, sliderUi, galleryVars>>

\* lines 213-228: the modal is shown; playId is that of the saved allocator
\* result, undefined (0) when there is none
GoShowModal ==
    /\ stopSeq # Null
    /\ Val(stopSeq).pc = "bounce"
    /\ LET winningCard == Val(Val(stopSeq).winningCard)
           actualPrize == CHOOSE z \in Range(prizes) : z.id = winningCard.prizeId
           actualResult == [ playId |-> IF go.apiResult = Null THEN 0
                                        ELSE Val(go.apiResult).playId,
                             prize |-> actualPrize ]
       IN  go' = [go EXCEPT !.playResult = Some(actualResult),
                            !.showModal = TRUE,
                            !.isStopping = FALSE,
                            !.isSpinning = FALSE]
    /\ stopSeq' = Null
    /\ UNCHANGED <<prizes, machineVars, geomVars, pickVars, flowVars,
                   sliderVars, sliderUi, galleryVars>>

\* handleCloseModal, lines 276-284: Esc, the overlay or the close button
handleCloseModalV2 ==
    /\ go.showModal
    /\ go.playResult # Null
    /\ sliderUi' = [sliderUi EXCEPT !.highlightedCard = Null]
    /\ rowStates' = unfreeze(rowStates)
    /\ go' = [go EXCEPT !.showModal = FALSE, !.playResult = Null]
    /\ UNCHANGED <<prizes, machineVars, geomVars, pickVars, flowVars,
                   sliderGeom, decel, decel2, sliderOp, visible, stopSeq, galleryVars>>

\* the dev controls' Freeze and Unfreeze buttons, lines 368-372
DevFreeze == env.showDevControls /\ Freeze
DevUnfreeze == env.showDevControls /\ Unfreeze

GoNext ==
    \/ handleGO
    \/ GoAllocatorResolve
    \/ GoAllocatorReject
    \/ handleGOStop
    \/ GoMinSpinDone
    \/ Tick
    \/ DecelerateFrame
    \/ GoSample
    \/ GoClawStart
    \/ GoHighlight
    \/ GoHideTimer
    \/ GoClawDelivered
    \/ GoShowModal
    \/ handleCloseModalV2
    \/ DevFreeze
    \/ DevUnfreeze

GoSpec == GoInit /\ [][GoNext]_vars

\* C17: when the allocator call fails, the play ends with the flow back in its
\* idle condition (isSpinning false in the multi-row flow) with a non-null
\* error message, no spin animation has been started for that play, and a
\* subsequent GO is accepted.
C17_AllocationFailureAborts ==
    [][GoAllocatorReject =>
          /\ ~go'.isSpinning
          /\ go'.error # NullStr
          /\ stopSeq' = Null
          /\ decel' = Null
          /\ ~go'.isStopping]_vars

\* every row rests on a card boundary, as snapToGrid leaves it
itemAligned(rows, geom) ==
    \A i \in 1..Len(rows) : rows[i].position % cardWidth(geom) = 0

\* C23: in multi-candidate mode, in every play, snapToGrid has been applied to
\* every reel after its last movement and before getVisibleCards is sampled to
\* choose the winning card, so the sample is always taken on item-aligned
\* positions.
C23_SampleOnAlignedRows ==
    [][GoSample => itemAligned(rowStates, sliderGeom)]_vars

\* the timers and promises of a stop sequence fire, animation frames keep
\* coming and the clock advances
\* (a stop sequence waits for one thing at a time, so one condition on its
\* next step covers them all)
GoSequenceStep ==
    \/ GoMinSpinDone
    \/ DecelerateFrame /\ clockAdvanced(decel, decel')
    \/ GoSample
    \/ GoClawStart
    \/ GoHighlight
    \/ GoHideTimer
    \/ GoClawDelivered
    \/ GoShowModal

GoFairness == WF_vars(GoSequenceStep)

GoLiveSpec == GoInit /\ [][GoNext]_vars /\ GoFairness

\* C29: in the multi-row flow every stop sequence started by a STOP click
\* eventually ends with isStopping = false and isSpinning = false, so the GO
\* button becomes enabled again; this also holds when getVisibleCards returns
\* no cards or the winning prize cannot be found.
C29_StopSequenceEnds ==
    (stopSeq # Null) ~> (~go.isStopping /\ ~go.isSpinning /\ buttonEnabled)

\* the winning card has been sampled and the result modal is not yet closed
sampledOrShown ==
    \/ stopSeq # Null /\ Val(stopSeq).winningCard # Null
    \/ go.showModal

\* C20: in the multi-row flow, for every order of GO and STOP clicks and every
\* arrival time of the allocator response, all rows are frozen from the moment
\* the winning card is sampled until the result modal is closed.
C20_FrozenFromSampleToClose == sampledOrShown => allFrozen(rowStates)

----------------------------------------------------------------------------
(* GallerySpec: CircularGallery.tsx, the looping gallery and its spinToIndex *)
(* Scroll is counted in auto-scroll steps; a lerp step is rounded away from  *)
(* the current value, so that the scroll reaches its target.                 *)

\* lerp(p1, p2, t) with t = scroll.ease
lerp(p1, p2) ==
    IF p2 >= p1
    THEN p1 + CeilDiv((p2 - p1) * SCROLL_EASE_NUM, SCROLL_EASE_DEN)
    ELSE p1 - CeilDiv((p1 - p2) * SCROLL_EASE_NUM, SCROLL_EASE_DEN)

\* spinToIndex's targetScroll: laps full laps plus the target index, counted
\* from wherever the scroll is
targetScrollOf(current, targetIndex, laps, n) ==
    current + ((laps * n) + targetIndex) * GalleryItemWidth

\* getCenteredIndex
getCenteredIndex(g, n) ==
    LET rawIndex == RoundDiv(g.current, GalleryItemWidth)
    IN  JsRem(rawIndex, n)

\* the frames of spinToIndex's animate: progress = elapsed / duration in percent
SpinProgress == {50, 100}

\* 1 - Math.pow(1 - progress, 3) applied to the distance of the spin
easedScroll(startScroll, targetScroll, p) ==
    startScroll + ((targetScroll - startScroll) * (Cube(100) - Cube(100 - p))) \div Cube(100)

GalleryInit ==
    /\ prizes \in Catalogs(2, MaxPrizes, {1})
    /\ gallery = galleryInitial
    /\ MachineOff
    /\ GeomOff
    /\ PickOff
    /\ FlowOff
    /\ SliderOff
    /\ GoOff

spinsMade == IF gallery.landed = Null THEN 0 ELSE Val(gallery.landed).spins

\* App.update, one animation frame
GalleryUpdate ==
    /\ gallery.isFrozen \/ gallery.isSpinning \/ gallery.target < MaxScroll
    /\ gallery' =
          IF ~gallery.isFrozen
          THEN LET target == IF ~gallery.isSpinning
                             THEN gallery.target + autoScrollSpeed
                             ELSE gallery.target
               IN  [gallery EXCEPT !.target = target,
                                   !.current = lerp(gallery.current, target)]
          ELSE [gallery EXCEPT !.target = gallery.current]
    /\ UNCHANGED <<prizes, machineVars, geomVars, pickVars, flowVars, sliderVars, goVars>>

\* spinToIndex up to the first call of animate (elapsed 0)
spinToIndex ==
    /\ gallery.spin = Null
    /\ spinsMade < MaxSpins
    /\ \E targetIndex \in 0..(Len(prizes) - 1), laps \in 0..MaxGalleryLaps :
          LET startScroll == gallery.current
              targetScroll == targetScrollOf(gallery.current, targetIndex, laps, Len(prizes))
          IN  gallery' = [gallery EXCEPT
                             !.isSpinning = TRUE,
                             !.target = easedScroll(startScroll, targetScroll, 0),
                             !.spin = Some([ startScroll |-> startScroll,
                                             targetScroll |-> targetScroll,
                                             targetIndex |-> targetIndex,
                                             progress |-> 0 ])]
    /\ UNCHANGED <<prizes, machineVars, geomVars, pickVars, flowVars, sliderVars, goVars>>

\* a later frame of animate; at progress 1 the promise resolves
SpinFrame ==
    /\ gallery.spin # Null
    /\ \E k \in { p \in SpinProgress : p >= Val(gallery.spin).progress } :
          LET spin == Val(gallery.spin)
          IN  gallery' =
                 IF k < 100
                 THEN [gallery EXCEPT
                          !.target = easedScroll(spin.startScroll, spin.targetScroll, k),
                          !.spin = Some([spin EXCEPT !.progress = k])]
                 ELSE [gallery EXCEPT
                          !.target = spin.targetScroll,
                          !.isSpinning = FALSE,
                          !.spin = Null,
                          !.landed = Some([ targetIndex |-> spin.targetIndex,
                                            targetScroll |-> spin.targetScroll,
                                            spins |-> spinsMade + 1 ])]
    /\ UNCHANGED <<prizes, machineVars, geomVars, pickVars, flowVars, sliderVars, goVars>>

GalleryFreeze ==
    /\ ~gallery.isFrozen
    /\ gallery' = [gallery EXCEPT !.isFrozen = TRUE]
    /\ UNCHANGED <<prizes, machineVars, geomVars, pickVars, flowVars, sliderVars, goVars>>

GalleryUnfreeze ==
    /\ gallery.isFrozen
    /\ gallery' = [gallery EXCEPT !.isFrozen = FALSE]
    /\ UNCHANGED <<prizes, machineVars, geomVars, pickVars, flowVars, sliderVars, goVars>>

GalleryNext ==
    \/ GalleryUpdate
    \/ spinToIndex
    \/ SpinFrame
    \/ GalleryFreeze
    \/ GalleryUnfreeze

GallerySpec == GalleryInit /\ [][GalleryNext]_vars

\* the last spin has resolved and the scroll rests on that spin's target
settledOnTarget ==
    /\ gallery.landed # Null
    /\ gallery.spin = Null
    /\ gallery.current = Val(gallery.landed).targetScroll

\* C21: for every starting scroll position, after spinToIndex(targetIndex,
\* duration, laps) has resolved and the scroll has settled on its target,
\* getCenteredIndex() equals targetIndex.
C21_SpinLandsOnTarget ==
    settledOnTarget =>
        getCenteredIndex(gallery, Len(prizes)) = Val(gallery.landed).targetIndex

====
